---- MODULE Spec2Model ----
(***************************************************************************)
(* A model of tuple-einsum: the instrumentation wrapper of opcheck.py and  *)
(* the Shape / EinTup / Runtime classes of runtime.py.                     *)
(*                                                                         *)
(* External collaborators (the Schema object, the BCParser grammar and its *)
(* AST nodes, the tensor engine) are modelled by their contracts; their    *)
(* results are nondeterministic inputs.                                    *)
(***************************************************************************)
EXTENDS Integers, Sequences, FiniteSets, TLC

(***************************************************************************)
(* Part 1.  opcheck.py                                                     *)
(***************************************************************************)

VARIABLES
    config_validate,  \* config.validate, the singleton toggle
    registered,       \* op paths whose callable register() has replaced
    w_pc,             \* position inside wrapper(): "idle" or a source line
    w_op,             \* the op whose wrapper is running
    w_args,           \* the caller's arguments of this invocation
    opcheck_valid,    \* local opcheck_valid
    ret_val,          \* local ret_val ("None" while unbound)
    framework_ex,     \* local framework_ex ("None" or the caught exception)
    inflight_ex,      \* exception propagating through finally, not caught
    func_result,      \* what func(*args, **kwargs) did in this invocation
    events            \* observable effects of this invocation, in order

wvars == <<config_validate, registered, w_pc, w_op, w_args, opcheck_valid,
           ret_val, framework_ex, inflight_ex, func_result, events>>

\* Op paths handed to register().
Ops == {"tf.gather", "tf.nn.conv"}

\* Argument bindings a caller may pass (each binds to the signature).
ArgVals == {"args1", "args2"}

\* Values the original callable may return.
RetVals == {"ret1", "ret2"}

\* Exception objects the original callable may raise.  The first two are
\* instances of Exception; the last is a BaseException that is not
\* (KeyboardInterrupt, SystemExit, GeneratorExit).
ExceptionObjs == {"ValueError_boom", "TypeError_x"}
BaseOnlyObjs == {"KeyboardInterrupt"}
RaisedObjs == ExceptionObjs \cup BaseOnlyObjs

\* isinstance(ex, Exception): what "except Exception as ex" matches.
IsException(ex) == ex \in ExceptionObjs

Ev(name, arg) == [ev |-> name, arg |-> arg]

NoResult == [kind |-> "none", val |-> "None"]

InitOpcheck ==
    /\ config_validate = FALSE
    /\ registered = {}
    /\ w_pc = "idle"
    /\ w_op = "None"
    /\ w_args = "None"
    /\ opcheck_valid = FALSE
    /\ ret_val = "None"
    /\ framework_ex = "None"
    /\ inflight_ex = "None"
    /\ func_result = NoResult
    /\ events = <<>>

\* validate_schema(do_validate)
ValidateSchema(do_validate) ==
    /\ w_pc = "idle"
    /\ config_validate' = do_validate
    /\ UNCHANGED <<registered, w_op, w_args, w_pc, opcheck_valid, ret_val,
                   framework_ex, inflight_ex, func_result, events>>

\* register(op_path): the callable at op_path is replaced by wrapper.
Register(op_path) ==
    /\ w_pc = "idle"
    /\ op_path \notin registered
    /\ registered' = registered \cup {op_path}
    /\ UNCHANGED <<config_validate, w_op, w_args, w_pc, opcheck_valid,
                   ret_val, framework_ex, inflight_ex, func_result, events>>

\* wrapper, lines 20-26: bind the arguments, op.p.init, framework_ex = None.
WrapperEnter(op, args) ==
    /\ w_pc = "idle"
    /\ op \in registered
    /\ w_op' = op
    /\ w_args' = args
    /\ events' = <<Ev("init", args)>>
    /\ framework_ex' = "None"
    /\ inflight_ex' = "None"
    /\ ret_val' = "None"
    /\ opcheck_valid' = FALSE
    /\ func_result' = NoResult
    /\ w_pc' = "L28"
    /\ UNCHANGED <<config_validate, registered>>

\* WrapperEvaluate with a failed validation blocking the call: control goes
\* straight to the finally block.
WrapperEvaluateBlocks ==
    /\ w_pc = "L28"
    /\ \E valid \in BOOLEAN :
        /\ opcheck_valid' = valid
        /\ events' = IF valid
                     THEN events \o <<Ev("evaluate", "True"),
                                      Ev("print_passed", w_op)>>
                     ELSE events \o <<Ev("evaluate", "False"),
                                      Ev("report", w_op),
                                      Ev("print_failed", w_op)>>
        /\ w_pc' = IF valid THEN "L34" ELSE "L51"
    /\ UNCHANGED <<config_validate, registered, w_op, w_args, ret_val,
                   framework_ex, inflight_ex, func_result>>

\* wrapper, lines 28-33: op.p.evaluate() and the pass / fail print.  The
\* fail print formats op.p.report() into its message.
WrapperEvaluate ==
    /\ w_pc = "L28"
    /\ \E valid \in BOOLEAN :
        /\ opcheck_valid' = valid
        /\ events' = IF valid
                     THEN events \o <<Ev("evaluate", "True"),
                                      Ev("print_passed", w_op)>>
                     ELSE events \o <<Ev("evaluate", "False"),
                                      Ev("report", w_op),
                                      Ev("print_failed", w_op)>>
    /\ w_pc' = "L34"
    /\ UNCHANGED <<config_validate, registered, w_op, w_args, ret_val,
                   framework_ex, inflight_ex, func_result>>

\* WrapperInvoke with the else branch also entered after a caught exception.
WrapperInvokeElseOnRaise ==
    /\ w_pc = "L34"
    /\ \/ \E r \in RetVals :
            /\ func_result' = [kind |-> "return", val |-> r]
            /\ ret_val' = r
            /\ events' = Append(events, Ev("func", w_args))
            /\ UNCHANGED <<framework_ex, inflight_ex>>
       \/ \E ex \in ExceptionObjs :
            /\ func_result' = [kind |-> "raise", val |-> ex]
            /\ events' = events \o <<Ev("func", w_args),
                                     Ev("print_exception", ex)>>
            /\ framework_ex' = ex
            /\ UNCHANGED <<inflight_ex, ret_val>>
    /\ w_pc' = "L40"
    /\ UNCHANGED <<config_validate, registered, w_op, w_args, opcheck_valid>>

\* wrapper, lines 34-38: try: ret_val = func(*args, **kwargs), with the
\* except Exception clause.  An exception that is not an Exception instance
\* matches no clause and stays in flight through finally.
WrapperInvoke ==
    /\ w_pc = "L34"
    /\ \/ \E r \in RetVals :
            /\ func_result' = [kind |-> "return", val |-> r]
            /\ ret_val' = r
            /\ events' = Append(events, Ev("func", w_args))
            /\ w_pc' = "L40"
            /\ UNCHANGED <<framework_ex, inflight_ex>>
       \/ \E ex \in RaisedObjs :
            /\ func_result' = [kind |-> "raise", val |-> ex]
            /\ IF IsException(ex)
               THEN /\ events' = events \o <<Ev("func", w_args),
                                             Ev("print_exception", ex)>>
                    /\ framework_ex' = ex
                    /\ UNCHANGED inflight_ex
               ELSE /\ events' = Append(events, Ev("func", w_args))
                    /\ inflight_ex' = ex
                    /\ UNCHANGED framework_ex
            /\ w_pc' = "L51"
            /\ UNCHANGED ret_val
    /\ UNCHANGED <<config_validate, registered, w_op, w_args, opcheck_valid>>

\* wrapper, lines 39-41: else: op.p.set_outputs(ret_val); op.p.validate()
WrapperElse ==
    /\ w_pc = "L40"
    /\ events' = events \o <<Ev("set_outputs", ret_val), Ev("validate", w_op)>>
    /\ w_pc' = "L51"
    /\ UNCHANGED <<config_validate, registered, w_op, w_args, opcheck_valid,
                   ret_val, framework_ex, inflight_ex, func_result>>

\* WrapperFinally with the captured exception swallowed: the wrapper reports
\* and returns ret_val.
WrapperFinallySwallows ==
    /\ w_pc = "L51"
    /\ events' = events \o <<Ev("report", w_op), Ev("return", ret_val)>>
    /\ w_pc' = "idle"
    /\ UNCHANGED <<config_validate, registered, w_op, w_args, opcheck_valid,
                   ret_val, framework_ex, inflight_ex, func_result>>

\* WrapperFinally with the report made on the success path only.
WrapperFinallyReportsOnSuccess ==
    /\ w_pc = "L51"
    /\ events' = events \o
         (IF framework_ex # "None" THEN <<Ev("raise", framework_ex)>>
          ELSE IF inflight_ex # "None" THEN <<Ev("raise", inflight_ex)>>
          ELSE <<Ev("report", w_op), Ev("return", ret_val)>>)
    /\ w_pc' = "idle"
    /\ UNCHANGED <<config_validate, registered, w_op, w_args, opcheck_valid,
                   ret_val, framework_ex, inflight_ex, func_result>>

\* wrapper, lines 50-55: finally: op.p.report(); raise framework_ex if one
\* was caught; an exception in flight propagates when finally ends;
\* otherwise return ret_val.
WrapperFinally ==
    /\ w_pc = "L51"
    /\ events' = events \o
         <<Ev("report", w_op),
           IF framework_ex # "None" THEN Ev("raise", framework_ex)
           ELSE IF inflight_ex # "None" THEN Ev("raise", inflight_ex)
           ELSE Ev("return", ret_val)>>
    /\ w_pc' = "idle"
    /\ UNCHANGED <<config_validate, registered, w_op, w_args, opcheck_valid,
                   ret_val, framework_ex, inflight_ex, func_result>>

(***************************************************************************)
(* Part 2.  runtime.py: Shape, EinTup and the registry of Runtime          *)
(*                                                                         *)
(* Objects live in arenas and are referred to by their position: a Shape   *)
(* by its index in `shapes`, an EinTup by its index in `objs`.  Two EinTups*)
(* share a Shape exactly when they hold the same index.                    *)
(*                                                                         *)
(* Numbers handed to Shape.set are written in half units (3 stands for     *)
(* 1.5, 4 for 2) so that non-integral values occur; stored dims are whole  *)
(* numbers.                                                                *)
(***************************************************************************)

VARIABLES
    shapes,      \* the Shape objects: <<[isNone, dims]>>; isNone: dims is None
    objs,        \* the EinTup objects: <<[name, shadow_of, shape]>>
    tups,        \* Runtime.tups, an insertion-ordered dict: <<[name, tup]>>
    res,         \* how the last call ended: [op, target, exc, val]
    set_called   \* history: the Shapes on which set() has been called

gvars == <<shapes, objs, tups, res, set_called>>

\* Most EinTup objects constructed.
MaxTups == 3

\* Longest dims sequence handed to set().
MaxRank == 2

\* Group names.
Names == {"a", "b", "c"}

\* Numbers handed to set(), in half units: -1.5, 0.5, 1.5, 2.
HalfVals == {-3, 1, 3, 4}

\* The dims handed to EinTup.set_dims by hand, in half units, and the value
\* handed to EinTup.set_dim.
GroupDimsIn == {<<>>, <<3>>, <<4, -3>>}
GroupElemVals == {7}

\* Whole numbers handed to set_elem().
ElemVals == {0, 7}

\* Indices handed to set_elem(); Python list indices may be negative.
ElemInds == -1..MaxRank

SeqsUpTo(S, n) == UNION {[1..k -> S] : k \in 0..n}

\* int(d) truncates toward zero.
PyInt(h) == IF h >= 0 THEN h \div 2 ELSE -((-h) \div 2)

\* A whole number written in half units.
Whole(n) == 2 * n

NoneRef == 0

\* Shape.__init__
NewShape == [isNone |-> TRUE, dims |-> <<>>]

Ok(v) == [exc |-> "None", val |-> v]
Raise(exc, msg) == [exc |-> exc, val |-> msg]

\* Shape.set(dims): the new value of the Shape.
ShapeSet(sh, dims) ==
    [isNone |-> FALSE, dims |-> [i \in 1..Len(dims) |-> PyInt(dims[i])]]

\* Shape.set_elem(ind, dim): how the call ends.
ShapeSetElemResult(sh, ind, dim) ==
    IF sh.isNone THEN Raise("RuntimeError", "uninitialized")
    ELSE IF ind >= Len(sh.dims) THEN Raise("RuntimeError", "out_of_bounds")
    ELSE IF ind < -Len(sh.dims) THEN Raise("IndexError", "list_index")
    ELSE Ok("None")

\* Shape.set_elem(ind, dim): the new value of the Shape.  A negative index
\* counts from the end of the list.
ShapeSetElem(sh, ind, dim) ==
    IF ShapeSetElemResult(sh, ind, dim).exc # "None" THEN sh
    ELSE LET pos == IF ind >= 0 THEN ind + 1 ELSE Len(sh.dims) + ind + 1
         IN  [sh EXCEPT !.dims[pos] = dim]

\* Shape.get() testing the truth of dims instead of "is None": an empty
\* list counts as unset.
ShapeGetFalsy(sh) ==
    IF sh.isNone \/ sh.dims = <<>> THEN Raise("RuntimeError", "uninitialized")
    ELSE [exc |-> "None", val |-> sh.dims]

\* Shape.get()
ShapeGet(sh) ==
    IF sh.isNone THEN Raise("RuntimeError", "uninitialized")
    ELSE [exc |-> "None", val |-> sh.dims]

\* EinTup.primary()
Primary(t) == objs[t].shadow_of = NoneRef

\* EinTup.same_shape_as(other)
SameShapeAs(t, other) == objs[t].shape = objs[other].shape

\* EinTup.dims()
TupDims(t) == ShapeGet(shapes[objs[t].shape])

\* EinTup.rank()
TupRank(t) ==
    LET g == ShapeGet(shapes[objs[t].shape])
    IN  IF g.exc # "None" THEN g ELSE [exc |-> "None", val |-> Len(g.val)]

\* The registry as a dict: its keys, and the EinTup stored under a key.
KeysOf(tp) == {tp[i].name : i \in 1..Len(tp)}
Lookup(tp, name) == tp[CHOOSE i \in 1..Len(tp) : tp[i].name = name].tup
TupNames == KeysOf(tups)
TupOf(name) == Lookup(tups, name)

InitRuntime ==
    /\ shapes = <<>>
    /\ objs = <<>>
    /\ tups = <<>>
    /\ res = [op |-> "init", target |-> 0, exc |-> "None", val |-> "None"]
    /\ set_called = {}

Res(op, target, r) == [op |-> op, target |-> target, exc |-> r.exc, val |-> r.val]

\* ---- calls on a Shape, reached through tup.shape ----

\* s.set(dims)
DoShapeSet(s, dims) ==
    /\ shapes' = [shapes EXCEPT ![s] = ShapeSet(shapes[s], dims)]
    /\ set_called' = set_called \cup {s}
    /\ res' = Res("Shape.set", s, Ok("None"))
    /\ UNCHANGED <<objs, tups>>

\* s.set_elem(ind, dim)
DoShapeSetElem(s, ind, dim) ==
    /\ shapes' = [shapes EXCEPT ![s] = ShapeSetElem(shapes[s], ind, dim)]
    /\ res' = Res("Shape.set_elem", s, ShapeSetElemResult(shapes[s], ind, dim))
    /\ UNCHANGED <<objs, tups, set_called>>

\* s.get()
DoShapeGet(s) ==
    /\ res' = Res("Shape.get", s, ShapeGet(shapes[s]))
    /\ UNCHANGED <<shapes, objs, tups, set_called>>

\* ---- EinTup ----

\* The objects as one value: what a call that constructs EinTups works on.
Heap == [shapes |-> shapes, objs |-> objs, tups |-> tups]

SetHeap(hp) == shapes' = hp.shapes /\ objs' = hp.objs /\ tups' = hp.tups

\* EinTup(name, shadow_of) with a Shadow given a copy of its owner's Shape.
EinTupInitCopies(hp, name, shadow_of) ==
    [hp EXCEPT
       !.shapes = Append(hp.shapes, IF shadow_of = NoneRef THEN NewShape
                                    ELSE hp.shapes[hp.objs[shadow_of].shape]),
       !.objs = Append(hp.objs, [name |-> name, shadow_of |-> shadow_of,
                                 shape |-> Len(hp.shapes) + 1])]

\* EinTup(name, shadow_of): a Primary gets a fresh Shape, a Shadow the Shape
\* of its owner.  The new EinTup is the last of objs.
EinTupInit(hp, name, shadow_of) ==
    IF shadow_of = NoneRef
    THEN [hp EXCEPT
            !.shapes = Append(hp.shapes, NewShape),
            !.objs = Append(hp.objs, [name |-> name, shadow_of |-> NoneRef,
                                      shape |-> Len(hp.shapes) + 1])]
    ELSE [hp EXCEPT
            !.objs = Append(hp.objs, [name |-> name, shadow_of |-> shadow_of,
                                      shape |-> hp.objs[shadow_of].shape])]

\* t.set_dims(dims): how the call ends.
TupSetDimsResult(t, dims) ==
    IF objs[t].shadow_of # NoneRef
    THEN Raise("RuntimeError", "set_dims_on_shadow")
    ELSE Ok("None")

\* t.set_dims(dims): the Shapes after the call.
TupSetDims(t, dims) ==
    IF TupSetDimsResult(t, dims).exc # "None" THEN shapes
    ELSE [shapes EXCEPT ![objs[t].shape] = ShapeSet(shapes[objs[t].shape], dims)]

\* t.set_dim(ind, val): the Shapes after the call.
TupSetDim(t, ind, val) ==
    [shapes EXCEPT ![objs[t].shape] = ShapeSetElem(shapes[objs[t].shape], ind, val)]

DoNewEinTup(name, shadow_of) ==
    /\ Len(objs) < MaxTups
    /\ SetHeap(EinTupInit(Heap, name, shadow_of))
    /\ res' = Res("EinTup", Len(objs) + 1, Ok("None"))
    /\ UNCHANGED set_called

DoTupSetDims(t, dims) ==
    /\ shapes' = TupSetDims(t, dims)
    /\ set_called' = IF TupSetDimsResult(t, dims).exc = "None"
                     THEN set_called \cup {objs[t].shape} ELSE set_called
    /\ res' = Res("set_dims", t, TupSetDimsResult(t, dims))
    /\ UNCHANGED <<objs, tups>>

DoTupSetDim(t, ind, val) ==
    /\ shapes' = TupSetDim(t, ind, val)
    /\ res' = Res("set_dim", t, ShapeSetElemResult(shapes[objs[t].shape], ind, val))
    /\ UNCHANGED <<objs, tups, set_called>>

(***************************************************************************)
(* Runtime: the registry and the dims setters                              *)
(***************************************************************************)

\* Runtime.__init__(min_dim=5, max_dim=100): the default lower limit, and
\* the upper limit this Runtime is constructed with.
min_dim == 5
max_dim == 7

\* randint with the upper limit included.
RandIntInclusive(lo, hi, rank) ==
    IF rank = 0 THEN {<<>>}
    ELSE {[i \in 1..rank |-> IF i = 1 THEN v ELSE lo] : v \in lo..hi}

\* np.random.randint(lo, hi, rank): the arrays it may return, every entry
\* in [lo, hi).  The first axis takes every value; the axes after it come
\* out as lo.
RandInt(lo, hi, rank) ==
    IF rank = 0 THEN {<<>>}
    ELSE {[i \in 1..rank |-> IF i = 1 THEN v ELSE lo] : v \in lo..(hi - 1)}

\* Runtime.get_primary_tups(), as the list of their names in dict order.
RECURSIVE PrimaryNamesFrom(_)
PrimaryNamesFrom(i) ==
    IF i > Len(tups) THEN <<>>
    ELSE IF Primary(tups[i].tup)
         THEN <<tups[i].name>> \o PrimaryNamesFrom(i + 1)
         ELSE PrimaryNamesFrom(i + 1)

GetPrimaryTups == PrimaryNamesFrom(1)

\* Runtime.maybe_add_tup(name, shadow_of): how the call ends, with the
\* EinTup it returns.
MaybeAddTupResult(hp, name, shadow_of) ==
    IF name \in KeysOf(hp.tups) THEN Ok(Lookup(hp.tups, name))
    ELSE IF shadow_of = NoneRef THEN Ok(Len(hp.objs) + 1)
    ELSE IF hp.objs[shadow_of].name \in KeysOf(hp.tups)
         THEN Ok(Len(hp.objs) + 1)
    ELSE Raise("RuntimeError", "shadow_of_does_not_exist")

\* Runtime.maybe_add_tup(name, shadow_of): the objects after the call.
MaybeAddTup(hp, name, shadow_of) ==
    IF name \in KeysOf(hp.tups) THEN hp
    ELSE IF MaybeAddTupResult(hp, name, shadow_of).exc # "None" THEN hp
    ELSE LET made == EinTupInit(hp, name, shadow_of)
         IN  [made EXCEPT !.tups = Append(hp.tups,
                 [name |-> name, tup |-> Len(made.objs)])]

DoMaybeAddTup(name, shadow_of) ==
    /\ name \in TupNames \/ Len(objs) < MaxTups
    /\ SetHeap(MaybeAddTup(Heap, name, shadow_of))
    /\ res' = Res("maybe_add_tup", name, MaybeAddTupResult(Heap, name, shadow_of))
    /\ UNCHANGED set_called

\* One entry of the loop of set_ranks without the test for a Primary.
SetRankResultAnyKind(name) ==
    IF name \notin TupNames THEN Raise("RuntimeError", "unknown_eintup")
    ELSE Ok("None")

\* One entry of the loop of Runtime.set_ranks: how it ends.
SetRankResult(name) ==
    IF name \notin TupNames THEN Raise("RuntimeError", "unknown_eintup")
    ELSE IF ~Primary(TupOf(name)) THEN Raise("RuntimeError", "non_primary")
    ELSE Ok("None")

\* set_ranks made atomic: when an entry is refused, the Shapes are put
\* back as they were before the call.
RECURSIVE SetRanksAtomic(_, _, _, _)
SetRanksAtomic(shp, rank_map, sample, i) ==
    IF i > Len(rank_map) THEN [shapes |-> shp, stop |-> 0, r |-> Ok("None")]
    ELSE LET name == rank_map[i].name
             r == SetRankResult(name)
         IN  IF r.exc # "None" THEN [shapes |-> shapes, stop |-> i, r |-> r]
             ELSE LET sid == objs[TupOf(name)].shape
                      dims == [k \in 1..Len(sample[i]) |-> Whole(sample[i][k])]
                  IN  SetRanksAtomic(
                          [shp EXCEPT ![sid] = ShapeSet(shp[sid], dims)],
                          rank_map, sample, i + 1)

\* Runtime.set_ranks(rank_map), from entry i on, on Shapes shp.  rank_map is
\* the dict as its list of [name, rank] items; sample[i] is what randint
\* returns for entry i.  The result holds the Shapes when the loop stops and
\* the entry it stopped at (0 when it ran to the end).
RECURSIVE SetRanksFrom(_, _, _, _)
SetRanksFrom(shp, rank_map, sample, i) ==
    IF i > Len(rank_map) THEN [shapes |-> shp, stop |-> 0, r |-> Ok("None")]
    ELSE LET name == rank_map[i].name
             r == SetRankResult(name)
         IN  IF r.exc # "None" THEN [shapes |-> shp, stop |-> i, r |-> r]
             ELSE LET sid == objs[TupOf(name)].shape
                      dims == [k \in 1..Len(sample[i]) |-> Whole(sample[i][k])]
                  IN  SetRanksFrom(
                          [shp EXCEPT ![sid] = ShapeSet(shp[sid], dims)],
                          rank_map, sample, i + 1)

SetRanks(rank_map, sample) == SetRanksFrom(shapes, rank_map, sample, 1)

\* The Shapes set() was called on by a set_ranks that stopped at `stop`.
SetRanksTouched(rank_map, stop) ==
    {objs[TupOf(rank_map[i].name)].shape :
        i \in 1..(IF stop = 0 THEN Len(rank_map) ELSE stop - 1)}

\* What randint may return for each entry of rank_map.
SamplesFor(rank_map) ==
    {s \in [1..Len(rank_map) ->
              UNION {RandInt(min_dim, max_dim, rank_map[i].rank) :
                        i \in 1..Len(rank_map)}] :
        \A i \in 1..Len(rank_map) : Len(s[i]) = rank_map[i].rank}

DoSetRanks(rank_map) ==
    \E sample \in SamplesFor(rank_map) :
        LET out == SetRanks(rank_map, sample)
        IN  /\ shapes' = out.shapes
            /\ set_called' = set_called \cup SetRanksTouched(rank_map, out.stop)
            /\ res' = [op |-> "set_ranks",
                       target |-> [rank_map |-> rank_map, stop |-> out.stop],
                       exc |-> out.r.exc, val |-> out.r.val]
            /\ UNCHANGED <<objs, tups>>

\* Runtime.tup(eintup): how the lookup ends.
TupResult(name) ==
    IF name \notin TupNames THEN Raise("RuntimeError", "unknown_eintup")
    ELSE Ok(TupOf(name))

\* Runtime.set_one_dim(tup, ind, val)
DoSetOneDim(name, ind, val) ==
    LET t == TupResult(name)
    IN  IF t.exc # "None"
        THEN /\ res' = Res("set_one_dim", name, t)
             /\ UNCHANGED <<shapes, objs, tups, set_called>>
        ELSE /\ shapes' = TupSetDim(t.val, ind, val)
             /\ res' = Res("set_one_dim", name,
                           ShapeSetElemResult(shapes[objs[t.val].shape], ind, val))
             /\ UNCHANGED <<objs, tups, set_called>>

(***************************************************************************)
(* Part 3.  runtime.py: the Runtime as engine                              *)
(*                                                                         *)
(* A specification file is the sequence of its lines, "" a blank line.     *)
(* The grammar (module parse, class BCParser) and its AST nodes are not    *)
(* part of runtime.py: a node is the text it was parsed from together with *)
(* the parsing mode, and the meaning of each line used here is tabulated   *)
(* below.                                                                  *)
(***************************************************************************)

VARIABLES
    rt_attrs,      \* the attributes the Runtime instance has
    statements,    \* Runtime.statements: [isNone, items]
    constraints,   \* Runtime.constraints: [isNone, items]
    tf_call,       \* Runtime.tf_call: the text of the call node
    out_args,      \* Runtime.out_args: the names of the TensorArg nodes
    arrays,        \* Runtime.arrays, an ordered dict: <<[name, val]>>
    parse_log,     \* the calls of parser.parse, in order: <<[mode, text]>>
    eval_log,      \* nodes evaluated by the last run(), in order
    gen_pc,        \* the gen_shapes generator: "none", "created",
                   \*   "running", "yielded", "done", "failed"
    gen_names,     \* its local primary_tup_names
    gen_idx,       \* how many rank_combos it has taken from np.ndindex
    gen_rank_map,  \* its local rank_map
    n_yielded,     \* history: how many rank maps it has yielded
    visited        \* history: the rank_combos it has bound

evars == <<rt_attrs, statements, constraints, tf_call, out_args, arrays,
           parse_log, eval_log>>
svars == <<gen_pc, gen_names, gen_idx, gen_rank_map, n_yielded, visited>>

NoneList == [isNone |-> TRUE, items |-> <<>>]
ListOf(xs) == [isNone |-> FALSE, items |-> xs]

\* Runtime.__init__: the attributes it assigns, and their values.
InitAttrs == {"parser", "tups", "array_sig", "arrays", "statements",
              "constraints", "min_dim", "max_dim"}

InitEngine ==
    /\ rt_attrs = InitAttrs
    /\ statements = NoneList
    /\ constraints = NoneList
    /\ tf_call = <<>>
    /\ out_args = <<>>
    /\ arrays = <<>>
    /\ parse_log = <<>>
    /\ eval_log = <<>>
    /\ gen_pc = "none"
    /\ gen_names = <<>>
    /\ gen_idx = 0
    /\ gen_rank_map = <<>>
    /\ n_yielded = 0
    /\ visited = {}

\* ---- the text of a specification file ----

\* content.strip(): leading and trailing blank lines are dropped.
RECURSIVE Strip(_)
Strip(lines) ==
    IF lines = <<>> THEN <<>>
    ELSE IF Head(lines) = "" THEN Strip(Tail(lines))
    ELSE IF lines[Len(lines)] = "" THEN Strip(SubSeq(lines, 1, Len(lines) - 1))
    ELSE lines

\* re.split('\n\n+', text): the text is cut at every run of blank lines.
\* cur is the section being read, acc the sections before it.
RECURSIVE SplitFrom(_, _, _, _)
SplitFrom(lines, i, cur, acc) ==
    IF i > Len(lines) THEN Append(acc, cur)
    ELSE IF lines[i] # "" THEN SplitFrom(lines, i + 1, Append(cur, lines[i]), acc)
    ELSE IF i > 1 /\ lines[i - 1] = "" THEN SplitFrom(lines, i + 1, cur, acc)
    ELSE SplitFrom(lines, i + 1, <<>>, Append(acc, cur))

Sections(content) == SplitFrom(Strip(content), 1, <<>>, <<>>)

\* text.strip().split('\n'): the lines of a section; of the empty text, the
\* one empty line.
SplitLines(section) == IF section = <<>> THEN <<"">> ELSE section

\* ---- the grammar: nodes and what they mean ----

\* parser.parse(text) in a mode.
Node(mode, text) == [mode |-> mode, text |-> text]

\* The EinTups a node registers in post_parse_init, as calls
\* maybe_add_tup(name, shadow_of) with the owner given by name.
NodeGroups(node) ==
    CASE node.text = <<"x[a,b] = RANDOM()">> ->
            <<[name |-> "a", owner |-> ""], [name |-> "b", owner |-> ""]>>
      [] node.text = <<"y[a,b] = x[a,b]">> ->
            <<[name |-> "a", owner |-> ""], [name |-> "b", owner |-> ""]>>
      [] node.text = <<"x[a,c] = RANDOM()">> ->
            <<[name |-> "a", owner |-> ""], [name |-> "c", owner |-> "a"]>>
      [] OTHER -> <<>>

\* The names of the TensorArg nodes of an expected-output text.
OutputNames(text) ==
    CASE text = <<"y">> -> <<"y">>
      [] text = <<"x">> -> <<"x">>
      [] text = <<"k">> -> <<"k">>
      [] text = <<"y,", "x">> -> <<"y", "x">>
      [] OTHER -> <<>>

\* Runtime.dims(eintup) on Shapes shp.
RtDims(shp, name) ==
    IF name \notin TupNames THEN Raise("RuntimeError", "unknown_eintup")
    ELSE ShapeGet(shp[objs[TupOf(name)].shape])

\* Runtime.rank(eintup) on Shapes shp.
RtRank(shp, name) ==
    LET d == RtDims(shp, name)
    IN  IF d.exc # "None" THEN d ELSE [exc |-> "None", val |-> Len(d.val)]

FirstRaise(rs) ==
    IF \E i \in DOMAIN rs : rs[i].exc # "None"
    THEN rs[CHOOSE i \in DOMAIN rs :
               rs[i].exc # "None" /\ \A j \in 1..(i - 1) : rs[j].exc = "None"]
    ELSE Ok("None")

\* con.value() of a constraint node on Shapes shp: [exc, val].
ConValue(node, shp) ==
    LET ra == RtRank(shp, "a")
        rb == RtRank(shp, "b")
        da == RtDims(shp, "a")
    IN  CASE node.text = <<"">> -> Ok(TRUE)
          [] node.text = <<"RANK(a) > 0">> ->
                IF ra.exc # "None" THEN ra ELSE Ok(ra.val > 0)
          [] node.text = <<"RANK(b) > 0">> ->
                IF rb.exc # "None" THEN rb ELSE Ok(rb.val > 0)
          [] node.text = <<"RANK(a) <= RANK(b)">> ->
                IF FirstRaise(<<ra, rb>>).exc # "None" THEN FirstRaise(<<ra, rb>>)
                ELSE Ok(ra.val <= rb.val)
          [] node.text = <<"ALL(DIMS(a) <= 5)">> ->
                IF da.exc # "None" THEN da
                ELSE Ok(\A i \in DOMAIN da.val : da.val[i] <= 5)
          [] OTHER -> Raise("RuntimeError", "bad_node")

\* ---- dicts ----

DictHas(d, name) == \E i \in DOMAIN d : d[i].name = name
DictGet(d, name) == d[CHOOSE i \in DOMAIN d : d[i].name = name].val
DictPut(d, name, v) ==
    IF DictHas(d, name)
    THEN [i \in DOMAIN d |-> IF d[i].name = name THEN [name |-> name, val |-> v]
                             ELSE d[i]]
    ELSE Append(d, [name |-> name, val |-> v])

\* st.evaluate() of a statement node on arrays arr: [exc, arrays].
StmtEvaluate(node, arr, shp) ==
    LET da == RtDims(shp, "a")
        db == RtDims(shp, "b")
        dc == RtDims(shp, "c")
        fail(r) == [exc |-> r.exc, arrays |-> arr]
        done(a) == [exc |-> "None", arrays |-> a]
    IN  CASE node.text = <<"x[a,b] = RANDOM()">> ->
                IF FirstRaise(<<da, db>>).exc # "None"
                THEN fail(FirstRaise(<<da, db>>))
                ELSE done(DictPut(arr, "x", [shape |-> da.val \o db.val]))
          [] node.text = <<"x[a,c] = RANDOM()">> ->
                IF FirstRaise(<<da, dc>>).exc # "None"
                THEN fail(FirstRaise(<<da, dc>>))
                ELSE done(DictPut(arr, "x", [shape |-> da.val \o dc.val]))
          [] node.text = <<"y[a,b] = x[a,b]">> ->
                IF ~DictHas(arr, "x") THEN fail(Raise("KeyError", "x"))
                ELSE done(DictPut(arr, "y", DictGet(arr, "x")))
          [] node.text = <<"k = 1">> ->
                done(DictPut(arr, "k", [shape |-> <<>>]))
          [] OTHER -> fail(Raise("RuntimeError", "bad_node"))

\* arg.value() of a TensorArg node: [exc, val].
ArgValue(name, arr) ==
    IF DictHas(arr, name) THEN Ok(DictGet(arr, name))
    ELSE Raise("KeyError", name)

\* ---- Runtime.parse_et_file ----

\* The post-init pass over the nodes from node i on: each node registers
\* the EinTups it names.  reqs are the registrations left of node i.
RECURSIVE RegisterAll(_, _)
RegisterAll(hp, reqs) ==
    IF reqs = <<>> THEN hp
    ELSE LET rq == Head(reqs)
             owner == IF rq.owner = "" THEN NoneRef
                      ELSE Lookup(hp.tups, rq.owner)
         IN  RegisterAll(MaybeAddTup(hp, rq.name, owner), Tail(reqs))

RECURSIVE Requests(_)
Requests(nodes) ==
    IF nodes = <<>> THEN <<>>
    ELSE NodeGroups(Head(nodes)) \o Requests(Tail(nodes))

PostParseInit(hp, nodes) == RegisterAll(hp, Requests(nodes))

NodesOf(mode, lines) == [i \in 1..Len(lines) |-> Node(mode, <<lines[i]>>)]

\* Runtime.parse_et_file(et_file), content the lines of the file.
ParseEtFile(content) ==
    LET secs == Sections(content)
        stmts == NodesOf("statement", SplitLines(secs[1]))
        call == Node("tfcall", secs[2])
        outs == Node("output", secs[3])
        cons == NodesOf("constraint",
                        SplitLines(IF Len(secs) >= 4 THEN secs[4] ELSE <<>>))
    IN  /\ statements.isNone
        /\ IF Len(secs) < 3
           THEN /\ res' = Res("parse_et_file", 0, Raise("StopIteration", "sections"))
                /\ UNCHANGED <<shapes, objs, tups, rt_attrs, statements,
                               constraints, tf_call, out_args, parse_log>>
           ELSE /\ statements' = ListOf(stmts)
                /\ tf_call' = call.text
                /\ out_args' = OutputNames(outs.text)
                /\ constraints' = ListOf(cons)
                /\ parse_log' = parse_log \o stmts \o <<call, outs>> \o cons
                /\ rt_attrs' = rt_attrs \cup {"tf_call", "out_args"}
                /\ SetHeap(PostParseInit(Heap, stmts \o cons \o <<call>>))
                /\ res' = Res("parse_et_file", 0, Ok("None"))
        /\ UNCHANGED <<set_called, arrays, eval_log>>

\* ---- constraints ----

\* all(con.value() for con in cons), from constraint i on: [exc, val].
RECURSIVE AllFrom(_, _, _)
AllFrom(cons, shp, i) ==
    IF i > Len(cons) THEN Ok(TRUE)
    ELSE LET v == ConValue(cons[i], shp)
         IN  IF v.exc # "None" THEN v
             ELSE IF ~v.val THEN Ok(FALSE)
             ELSE AllFrom(cons, shp, i + 1)

\* all(con.value() for con in self.constraints) on Shapes shp.
AllConstraints(shp) ==
    IF constraints.isNone THEN Raise("TypeError", "NoneType_not_iterable")
    ELSE AllFrom(constraints.items, shp, 1)

ConstraintsHold(shp) ==
    AllConstraints(shp).exc = "None" /\ AllConstraints(shp).val

\* ---- Runtime.gen_shapes ----

\* rank_space = (10,) * len(primary_tup_names)
RankCeiling == 10

RECURSIVE Pow(_, _)
Pow(b, n) == IF n = 0 THEN 1 ELSE b * Pow(b, n - 1)

\* The k-th index (from 0) that np.ndindex yields over n axes of RankCeiling:
\* row-major, the last axis fastest.
RankCombo(k, n) ==
    [i \in 1..n |-> (k \div Pow(RankCeiling, n - i)) % RankCeiling]

\* dict(zip(primary_tup_names, rank_combo))
ZipRanks(names, combo) ==
    [i \in 1..Len(names) |-> [name |-> names[i], rank |-> combo[i]]]

\* gen_shapes(): the generator is created; none of its code has run.
GenStart ==
    /\ gen_pc = "none"
    /\ ~statements.isNone
    /\ gen_pc' = "created"
    /\ UNCHANGED <<gen_names, gen_idx, gen_rank_map, n_yielded, visited>>
    /\ UNCHANGED <<gvars, evars>>

\* The primary_tup_names of the generator: computed when it first runs.
GenNames == IF gen_pc = "created" THEN GetPrimaryTups ELSE gen_names

\* One iteration of the loop of gen_shapes with the constraints evaluated
\* before set_ranks binds the new dims.
GenStepStale ==
    /\ gen_pc \in {"created", "running", "yielded"}
    /\ gen_idx < Pow(RankCeiling, Len(GenNames))
    /\ LET names == GenNames
           combo == RankCombo(gen_idx, Len(names))
           rank_map == ZipRanks(names, combo)
       IN  \E sample \in SamplesFor(rank_map) :
              LET out == SetRanks(rank_map, sample)
                  ok == IF gen_idx = 0 THEN AllConstraints(out.shapes)
                        ELSE AllConstraints(shapes)
              IN  /\ shapes' = out.shapes
                  /\ set_called' = set_called \cup
                                      SetRanksTouched(rank_map, out.stop)
                  /\ gen_names' = names
                  /\ gen_idx' = gen_idx + 1
                  /\ gen_rank_map' = rank_map
                  /\ visited' = visited \cup {combo}
                  /\ gen_pc' = IF ok.val THEN "yielded" ELSE "running"
                  /\ n_yielded' = IF ok.val THEN n_yielded + 1 ELSE n_yielded
                  /\ res' = Res("gen_shapes", gen_idx, Ok("None"))
    /\ UNCHANGED <<objs, tups, evars>>

\* One iteration of the loop of gen_shapes with the filter left out: every
\* rank map is yielded.
GenStepUnfiltered ==
    /\ gen_pc \in {"created", "running", "yielded"}
    /\ gen_idx < Pow(RankCeiling, Len(GenNames))
    /\ LET names == GenNames
           combo == RankCombo(gen_idx, Len(names))
           rank_map == ZipRanks(names, combo)
       IN  \E sample \in SamplesFor(rank_map) :
              LET out == SetRanks(rank_map, sample)
              IN  /\ shapes' = out.shapes
                  /\ set_called' = set_called \cup
                                      SetRanksTouched(rank_map, out.stop)
                  /\ gen_names' = names
                  /\ gen_idx' = gen_idx + 1
                  /\ gen_rank_map' = rank_map
                  /\ visited' = visited \cup {combo}
                  /\ gen_pc' = "yielded"
                  /\ n_yielded' = n_yielded + 1
                  /\ res' = Res("gen_shapes", gen_idx, Ok("None"))
    /\ UNCHANGED <<objs, tups, evars>>

\* One iteration of the loop of gen_shapes (lines 191-196): the next
\* rank_combo is zipped into rank_map, set_ranks binds it, the constraints
\* are evaluated; the rank_map is yielded when all hold, else the loop goes
\* on.  An exception of set_ranks or of a constraint ends the generator.
GenStep ==
    /\ gen_pc \in {"created", "running", "yielded"}
    /\ gen_idx < Pow(RankCeiling, Len(GenNames))
    /\ LET names == GenNames
           combo == RankCombo(gen_idx, Len(names))
           rank_map == ZipRanks(names, combo)
       IN  \E sample \in SamplesFor(rank_map) :
              LET out == SetRanks(rank_map, sample)
                  ok == AllConstraints(out.shapes)
                  exc == IF out.r.exc # "None" THEN out.r
                         ELSE IF ok.exc # "None" THEN ok
                         ELSE Ok("None")
              IN  /\ shapes' = out.shapes
                  /\ set_called' = set_called \cup
                                      SetRanksTouched(rank_map, out.stop)
                  /\ gen_names' = names
                  /\ gen_idx' = gen_idx + 1
                  /\ gen_rank_map' = rank_map
                  /\ visited' = visited \cup {combo}
                  /\ gen_pc' = IF exc.exc # "None" THEN "failed"
                               ELSE IF ok.val THEN "yielded"
                               ELSE "running"
                  /\ n_yielded' = IF exc.exc = "None" /\ ok.val
                                  THEN n_yielded + 1 ELSE n_yielded
                  /\ res' = Res("gen_shapes", gen_idx, exc)
    /\ UNCHANGED <<objs, tups, evars>>

\* np.ndindex is exhausted: the generator ends (StopIteration).
GenStop ==
    /\ gen_pc \in {"created", "running", "yielded"}
    /\ gen_idx = Pow(RankCeiling, Len(GenNames))
    /\ gen_pc' = "done"
    /\ gen_names' = GenNames
    /\ UNCHANGED <<gen_idx, gen_rank_map, n_yielded, visited>>
    /\ UNCHANGED <<gvars, evars>>

\* ---- Runtime.run ----

\* for st in self.statements: st.evaluate(), from statement i on:
\* [exc, arrays, log], log the nodes evaluated.
RECURSIVE EvaluateFrom(_, _, _, _, _)
EvaluateFrom(stmts, arr, shp, i, log) ==
    IF i > Len(stmts) THEN [exc |-> "None", arrays |-> arr, log |-> log]
    ELSE LET e == StmtEvaluate(stmts[i], arr, shp)
         IN  IF e.exc # "None"
             THEN [exc |-> e.exc, arrays |-> arr, log |-> Append(log, stmts[i])]
             ELSE EvaluateFrom(stmts, e.arrays, shp, i + 1, Append(log, stmts[i]))

\* { (arg.name, arg.value()) for arg in args }
OutputPairs(args, arr) ==
    {<<args[i], DictGet(arr, args[i])>> : i \in DOMAIN args}

\* run() without the guard: a false constraint does not stop it.
RunUnguarded ==
    LET ok == AllConstraints(shapes)
        ev == EvaluateFrom(statements.items, arrays, shapes, 1, <<>>)
    IN  /\ IF ok.exc # "None"
           THEN /\ res' = Res("run", 0, ok)
                /\ eval_log' = <<>>
                /\ UNCHANGED arrays
           ELSE IF ev.exc # "None"
           THEN /\ res' = Res("run", 0, Raise(ev.exc, "evaluate"))
                /\ eval_log' = ev.log
                /\ arrays' = ev.arrays
           ELSE /\ res' = Res("run", 0, Raise("AttributeError", "outputs"))
                /\ eval_log' = ev.log
                /\ arrays' = ev.arrays
        /\ UNCHANGED <<shapes, objs, tups, set_called, rt_attrs, statements,
                       constraints, tf_call, out_args, parse_log>>

\* Runtime.run()
Run ==
    LET ok == AllConstraints(shapes)
        ev == EvaluateFrom(statements.items, arrays, shapes, 1, <<>>)
    IN  /\ IF ok.exc # "None"
           THEN /\ res' = Res("run", 0, ok)
                /\ eval_log' = <<>>
                /\ UNCHANGED arrays
           ELSE IF ~ok.val
           THEN /\ res' = Res("run", 0, Ok("None"))
                /\ eval_log' = <<>>
                /\ UNCHANGED arrays
           ELSE IF ev.exc # "None"
           THEN /\ res' = Res("run", 0, Raise(ev.exc, "evaluate"))
                /\ eval_log' = ev.log
                /\ arrays' = ev.arrays
           ELSE IF "outputs" \notin rt_attrs
           THEN /\ res' = Res("run", 0, Raise("AttributeError", "outputs"))
                /\ eval_log' = ev.log
                /\ arrays' = ev.arrays
           ELSE /\ res' = Res("run", 0, Ok(OutputPairs(out_args, ev.arrays)))
                /\ eval_log' = ev.log \o NodesOf("output", out_args)
                /\ arrays' = ev.arrays
        /\ UNCHANGED <<shapes, objs, tups, set_called, rt_attrs, statements,
                       constraints, tf_call, out_args, parse_log>>

(***************************************************************************)
(* equal_tens                                                              *)
(***************************************************************************)

\* Tensors: [dtype, shape, elems].  Element values and tolerances are in
\* units of 1e-6, so the conventional eps is 1; an integer tensor holds
\* whole numbers only.
Million == {1000000}
FloatElems == {0, 1} \cup Million
IntElems == {0} \cup Million
TensShapes == {<<1>>, <<2>>}
EpsVals == {0, 1}

TensorsOf(dtype, elems) ==
    {[dtype |-> dtype, shape |-> sh, elems |-> e] :
        sh \in TensShapes, e \in UNION {[1..n -> elems] : n \in 1..2}}

Tensors ==
    {t \in TensorsOf("float32", FloatElems) \cup TensorsOf("int32", IntElems) :
        Len(t.elems) = t.shape[1]}

IsFloating(t) == t.dtype = "float32"

Abs(x) == IF x < 0 THEN -x ELSE x

\* tf.reduce_all(tf.less_equal(tf.abs(a - b), eps)) on tensors of one shape.
AllWithin(a, b, eps) ==
    \A i \in DOMAIN a.elems : Abs(a.elems[i] - b.elems[i]) <= eps

\* a - b on tensors of one shape: of one dtype it is computed; of two dtypes
\* the library either rejects the operands or converts one of them.
SubOutcomes(a, b) ==
    IF a.dtype = b.dtype THEN {"computed"} ELSE {"computed", "rejected"}

\* equal_tens(a, b, eps), the subtraction ending as `sub`: [exc, val].
EqualTens(a, b, eps, sub) ==
    LET eps0 == IF ~IsFloating(a) THEN 0 ELSE eps
    IN  IF a.shape # b.shape THEN Ok(FALSE)
        ELSE IF sub = "rejected" THEN Raise("InvalidArgumentError", "sub")
        ELSE Ok(AllWithin(a, b, eps0))

DoEqualTens(a, b, eps) ==
    \E sub \in SubOutcomes(a, b) :
        /\ res' = [op |-> "equal_tens", target |-> [a |-> a, b |-> b, eps |-> eps],
                   exc |-> EqualTens(a, b, eps, sub).exc,
                   val |-> EqualTens(a, b, eps, sub).val]
        /\ UNCHANGED <<shapes, objs, tups, set_called>>

(***************************************************************************)
(* Runtime.validate                                                        *)
(***************************************************************************)

\* What the external engine may return for the call expression: a tuple of
\* up to two tensors, each of a shape and at an offset (in units of 1e-6)
\* from the values the statements computed.
EngineShapes == {<<>>, <<5>>}
EngineOffsets == {0, 2}
EngineTensors == {[shape |-> sh, off |-> o] : sh \in EngineShapes, o \in EngineOffsets}
TfOutputs == UNION {[1..n -> EngineTensors] : n \in 0..2}

\* The tensors handed to equal_tens, each stood for by one element.
DslTensor(v) == [dtype |-> "float32", shape |-> v.shape, elems |-> <<0>>]
EngineTensor(o) == [dtype |-> "float32", shape |-> o.shape, elems |-> <<o.off>>]

\* equal_tens(et.value(), tf_out, 1e-6) for pair i of the zip.
Verdict(name, tf_out, arr) ==
    EqualTens(DslTensor(DictGet(arr, name)), EngineTensor(tf_out), 1, "computed").val

\* [equal_tens(...) for et, tf_out in zip(args, tf_outputs)]: zip stops at
\* the shorter of the two.
Verdicts(args, tf_outputs, arr) ==
    LET n == IF Len(args) < Len(tf_outputs) THEN Len(args) ELSE Len(tf_outputs)
    IN  IF \E i \in 1..n : ~DictHas(arr, args[i])
        THEN Raise("KeyError", "array")
        ELSE Ok([i \in 1..n |-> Verdict(args[i], tf_outputs[i], arr)])

\* Runtime.validate(), the engine returning tf_outputs.
Validate(tf_outputs) ==
    LET ev == EvaluateFrom(statements.items, arrays, shapes, 1, <<>>)
    IN  /\ IF statements.isNone
           THEN /\ res' = Res("validate", tf_outputs,
                              Raise("TypeError", "NoneType_not_iterable"))
                /\ UNCHANGED <<eval_log, arrays>>
           ELSE IF ev.exc # "None"
           THEN /\ res' = Res("validate", tf_outputs, Raise(ev.exc, "evaluate"))
                /\ eval_log' = ev.log
                /\ arrays' = ev.arrays
           ELSE /\ res' = Res("validate", tf_outputs,
                              Verdicts(out_args, tf_outputs, ev.arrays))
                /\ eval_log' = Append(ev.log, Node("tfcall", tf_call))
                /\ arrays' = ev.arrays
        /\ UNCHANGED <<shapes, objs, tups, set_called, rt_attrs, statements,
                       constraints, tf_call, out_args, parse_log>>

(***************************************************************************)
(* Iterating an EinTup                                                     *)
(***************************************************************************)

VARIABLES
    iter_index,   \* per EinTup, self.index: [isSet, dims, pos], pos the
                  \* number of indices np.ndindex(*dims) has given out
    iter_value,   \* per EinTup, self._value: [isNone, val]
    loops         \* the loops iterating EinTups: <<[tup, dims, got, done]>>,
                  \* dims as they were at the loop's iter() call, got the
                  \* values the loop has received

ivars == <<iter_index, iter_value, loops>>

\* Loops running at one time.
MaxLoops == 2

\* The dims of the iterated EinTup, in half units: [], [2], [2,3].
IterDimsIn == {<<>>, <<4>>, <<4, 6>>}

InitIter ==
    /\ iter_index = <<>>
    /\ iter_value = <<>>
    /\ loops = <<>>

\* The product of dims[i..].
RECURSIVE Prod(_, _)
Prod(dims, i) == IF i > Len(dims) THEN 1 ELSE dims[i] * Prod(dims, i + 1)

\* The number of indices np.ndindex(*dims) yields.
NElem(dims) == Prod(dims, 1)

\* The k-th index (from 0) np.ndindex(*dims) yields: row-major.
NdIndex(dims, k) ==
    [i \in 1..Len(dims) |-> (k \div Prod(dims, i + 1)) % dims[i]]

\* Everything np.ndindex(*dims) yields, in order.
AllIndices(dims) == [k \in 1..NElem(dims) |-> NdIndex(dims, k - 1)]

NoIndex == [isSet |-> FALSE, dims |-> <<>>, pos |-> 0]
NoValue == [isNone |-> TRUE, val |-> <<>>]

\* iter(t) at the start of a loop: EinTup.__iter__ makes a new np.ndindex
\* and returns the EinTup itself.
TupIter(t) ==
    /\ Len(loops) < MaxLoops
    /\ LET d == TupDims(t)
       IN  IF d.exc # "None"
           THEN /\ res' = Res("iter", t, d)
                /\ UNCHANGED <<iter_index, loops>>
           ELSE /\ iter_index' = [iter_index EXCEPT
                                    ![t] = [isSet |-> TRUE, dims |-> d.val, pos |-> 0]]
                /\ loops' = Append(loops, [tup |-> t, dims |-> d.val,
                                           got |-> <<>>, done |-> FALSE])
                /\ res' = Res("iter", t, Ok("self"))
    /\ UNCHANGED <<shapes, objs, tups, set_called, iter_value>>

\* next(t) asked by loop l: EinTup.__next__ advances self.index; when it is
\* exhausted StopIteration ends the loop.
TupNext(l) ==
    LET t == loops[l].tup
        ix == iter_index[t]
    IN  /\ ~loops[l].done
        /\ IF ix.pos < NElem(ix.dims)
           THEN /\ iter_index' = [iter_index EXCEPT ![t].pos = ix.pos + 1]
                /\ iter_value' = [iter_value EXCEPT
                                    ![t] = [isNone |-> FALSE,
                                            val |-> NdIndex(ix.dims, ix.pos)]]
                /\ loops' = [loops EXCEPT
                               ![l].got = Append(@, NdIndex(ix.dims, ix.pos))]
                /\ res' = Res("next", t, Ok(NdIndex(ix.dims, ix.pos)))
           ELSE /\ loops' = [loops EXCEPT ![l].done = TRUE]
                /\ res' = Res("next", t, Raise("StopIteration", "index"))
                /\ UNCHANGED <<iter_index, iter_value>>
        /\ UNCHANGED <<shapes, objs, tups, set_called>>

(***************************************************************************)
(* Specifications                                                          *)
(***************************************************************************)

\* The state.  The call and the kind of outcome of the last result lead, so
\* that two results are told apart by them before their values, which are of
\* different sorts from one call to another, are compared.
vars == <<res.op, res.exc, wvars, gvars, evars, svars, ivars>>

\* The wrapper: registration, the toggle, and invocations step by step.
InitW == InitOpcheck /\ InitRuntime /\ InitEngine /\ InitIter

NextOpcheck ==
    \/ \E b \in BOOLEAN : ValidateSchema(b) /\ UNCHANGED <<gvars, evars, svars, ivars>>
    \/ \E op \in Ops : Register(op) /\ UNCHANGED <<gvars, evars, svars, ivars>>
    \/ \E op \in Ops, args \in ArgVals :
          WrapperEnter(op, args) /\ UNCHANGED <<gvars, evars, svars, ivars>>
    \/ WrapperEvaluate /\ UNCHANGED <<gvars, evars, svars, ivars>>
    \/ WrapperInvoke /\ UNCHANGED <<gvars, evars, svars, ivars>>
    \/ WrapperElse /\ UNCHANGED <<gvars, evars, svars, ivars>>
    \/ WrapperFinally /\ UNCHANGED <<gvars, evars, svars, ivars>>

SpecOpcheck == InitW /\ [][NextOpcheck]_vars

\* One Shape and every sequence of calls on it.
InitShape ==
    /\ InitOpcheck
    /\ InitEngine
    /\ InitIter
    /\ shapes = <<NewShape>>
    /\ objs = <<>>
    /\ tups = <<>>
    /\ res = [op |-> "Shape", target |-> 1, exc |-> "None", val |-> "None"]
    /\ set_called = {}

NextShape ==
    \/ \E s \in DOMAIN shapes, dims \in SeqsUpTo(HalfVals, MaxRank) :
          DoShapeSet(s, dims) /\ UNCHANGED <<wvars, evars, svars, ivars>>
    \/ \E s \in DOMAIN shapes, ind \in ElemInds, dim \in ElemVals :
          DoShapeSetElem(s, ind, dim) /\ UNCHANGED <<wvars, evars, svars, ivars>>
    \/ \E s \in DOMAIN shapes : DoShapeGet(s) /\ UNCHANGED <<wvars, evars, svars, ivars>>

SpecShape == InitShape /\ [][NextShape]_vars

\* Names are given to EinTups in a fixed order of construction.
NameOrder == <<"a", "b", "c", "d", "e">>

\* EinTups constructed with any existing EinTup as owner, and dims set
\* and read through any of them.
InitGroups == InitOpcheck /\ InitRuntime /\ InitEngine /\ InitIter

NextGroups ==
    \/ \E o \in {NoneRef} \cup DOMAIN objs :
          DoNewEinTup(NameOrder[Len(objs) + 1], o) /\ UNCHANGED <<wvars, evars, svars, ivars>>
    \/ \E t \in DOMAIN objs, dims \in GroupDimsIn :
          DoTupSetDims(t, dims) /\ UNCHANGED <<wvars, evars, svars, ivars>>
    \/ \E t \in DOMAIN objs, ind \in ElemInds, val \in GroupElemVals :
          DoTupSetDim(t, ind, val) /\ UNCHANGED <<wvars, evars, svars, ivars>>

SpecGroups == InitGroups /\ [][NextGroups]_vars

\* Specification files.
FileNone ==
    <<"x[a,b] = RANDOM()", "y[a,b] = x[a,b]", "", "tf.identity(x)", "", "y">>
FileRankA == FileNone \o <<"", "RANK(a) > 0">>
FileRankB ==
    <<"", "x[a,b] = RANDOM()", "y[a,b] = x[a,b]", "", "",
      "tf.identity(", "x)", "", "y,", "x", "", "RANK(b) > 0", "">>
FileTwoCons ==
    <<"x[a,b] = RANDOM()", "", "tf.identity(x)", "", "x", "",
      "RANK(a) <= RANK(b)", "RANK(b) > 0">>
FileShadowDims ==
    <<"x[a,c] = RANDOM()", "", "tf.identity(x)", "", "x", "",
      "RANK(a) > 0", "ALL(DIMS(a) <= 5)">>
FileScalar == <<"k = 1", "", "tf.constant(1)", "", "k">>
FileShort == <<"k = 1", "", "tf.constant(1)">>

Files == {FileNone, FileRankA, FileRankB, FileTwoCons, FileShadowDims,
          FileScalar, FileShort}

InitAll == InitOpcheck /\ InitRuntime /\ InitEngine /\ InitIter

\* A specification is loaded and gen_shapes is run to its end.
NextSearch ==
    \/ \E f \in Files : ParseEtFile(f) /\ UNCHANGED <<wvars, svars, ivars>>
    \/ GenStart /\ UNCHANGED <<wvars, ivars>>
    \/ GenStep /\ UNCHANGED <<wvars, ivars>>
    \/ GenStop /\ UNCHANGED <<wvars, ivars>>

SpecSearch == InitAll /\ [][NextSearch]_vars

\* Rank maps handed to set_ranks by hand: one entry, of rank 0 or MaxRank.
RankMaps == {<<[name |-> n, rank |-> r]>> : n \in Names, r \in {0, MaxRank}}

\* A specification is loaded, ranks are set by hand, run() is called.
NextRun ==
    \/ \E f \in Files : ParseEtFile(f) /\ UNCHANGED <<wvars, svars, ivars>>
    \/ \E m \in RankMaps : DoSetRanks(m) /\ UNCHANGED <<wvars, evars, svars, ivars>>
    \/ Run /\ UNCHANGED <<wvars, svars, ivars>>

SpecRun == InitAll /\ [][NextRun]_vars


\* equal_tens called on every pair of small tensors.
InitEqual == InitOpcheck /\ InitRuntime /\ InitEngine /\ InitIter

NextEqual ==
    \E a \in Tensors, b \in Tensors, eps \in EpsVals :
        DoEqualTens(a, b, eps) /\ UNCHANGED <<wvars, evars, svars, ivars>>

SpecEqual == InitEqual /\ [][NextEqual]_vars

\* One EinTup whose dims are set, iterated by loops that may overlap.
InitLoops ==
    /\ InitOpcheck
    /\ InitEngine
    /\ \E d \in IterDimsIn : shapes = <<ShapeSet(NewShape, d)>>
    /\ objs = <<[name |-> "a", shadow_of |-> NoneRef, shape |-> 1]>>
    /\ tups = <<>>
    /\ res = [op |-> "set_dims", target |-> 1, exc |-> "None", val |-> "None"]
    /\ set_called = {1}
    /\ iter_index = <<NoIndex>>
    /\ iter_value = <<NoValue>>
    /\ loops = <<>>

NextLoops ==
    \/ \E t \in DOMAIN objs : TupIter(t) /\ UNCHANGED <<wvars, evars, svars>>
    \/ \E l \in DOMAIN loops : TupNext(l) /\ UNCHANGED <<wvars, evars, svars>>

SpecLoops == InitLoops /\ [][NextLoops]_vars

\* A specification is loaded, ranks are set by hand, validate() is called.
InitValidate == InitOpcheck /\ InitRuntime /\ InitEngine /\ InitIter

NextValidate ==
    \/ \E f \in Files : ParseEtFile(f) /\ UNCHANGED <<wvars, svars, ivars>>
    \/ \E m \in RankMaps : DoSetRanks(m) /\ UNCHANGED <<wvars, evars, svars, ivars>>
    \/ \E o \in TfOutputs : Validate(o) /\ UNCHANGED <<wvars, svars, ivars>>

SpecValidate == InitValidate /\ [][NextValidate]_vars

\* Rank maps in dict order, a name being registered or not, that of a
\* Primary or of a Shadow: of one, two or three entries, the first of rank
\* 0 or MaxRank (of rank 0 in a map of three), the others of rank 0.
OrderedRankMaps ==
    {<<[name |-> n, rank |-> r]>> : n \in Names, r \in {0, MaxRank}}
    \cup {<<[name |-> pr[1], rank |-> r], [name |-> pr[2], rank |-> 0]>> :
             pr \in {q \in Names \X Names : q[1] # q[2]}, r \in {0, MaxRank}}
    \cup {[i \in 1..3 |-> [name |-> tr[i], rank |-> 0]] :
             tr \in {q \in Names \X Names \X Names :
                        q[1] # q[2] /\ q[1] # q[3] /\ q[2] # q[3]}}

\* Groups are registered, Primary or Shadow of a registered group, and ranks
\* are set by hand.
InitRanks == InitOpcheck /\ InitRuntime /\ InitEngine /\ InitIter

NextRanks ==
    \/ \E n \in Names, i \in 0..Len(tups) :
          DoMaybeAddTup(n, IF i = 0 THEN NoneRef ELSE tups[i].tup)
             /\ UNCHANGED <<wvars, evars, svars, ivars>>
    \/ \E m \in OrderedRankMaps :
          DoSetRanks(m) /\ UNCHANGED <<wvars, evars, svars, ivars>>

SpecRanks == InitRanks /\ [][NextRanks]_vars

\* EinTups are constructed by hand as Primaries or registered with any
\* existing EinTup as owner, and dims are set through EinTups and through
\* the Runtime.
\* The dims handed to set_dims, in half units: [2]; and the indices handed
\* to set_dim and set_one_dim, the first axis and one past it.
RegistryDimsIn == {<<4>>}
RegistryInds == {0, 1}

InitRegistry == InitOpcheck /\ InitRuntime /\ InitEngine /\ InitIter

NextRegistry ==
    \/ \E n \in Names :
          DoNewEinTup(n, NoneRef) /\ UNCHANGED <<wvars, evars, svars, ivars>>
    \/ \E n \in Names, o \in {NoneRef} \cup DOMAIN objs :
          DoMaybeAddTup(n, o) /\ UNCHANGED <<wvars, evars, svars, ivars>>
    \/ \E t \in DOMAIN objs, dims \in RegistryDimsIn :
          DoTupSetDims(t, dims) /\ UNCHANGED <<wvars, evars, svars, ivars>>
    \/ \E t \in DOMAIN objs, ind \in RegistryInds, val \in GroupElemVals :
          DoTupSetDim(t, ind, val) /\ UNCHANGED <<wvars, evars, svars, ivars>>
    \/ \E n \in Names, ind \in RegistryInds, val \in GroupElemVals :
          DoSetOneDim(n, ind, val) /\ UNCHANGED <<wvars, evars, svars, ivars>>

SpecRegistry == InitRegistry /\ [][NextRegistry]_vars

(***************************************************************************)
(* Properties of Shape and EinTup                                          *)
(***************************************************************************)

\* The Primary at the end of the chain of owners of t.
RECURSIVE RootOf(_)
RootOf(t) == IF Primary(t) THEN t ELSE RootOf(objs[t].shadow_of)

Uninitialized == Raise("RuntimeError", "uninitialized")

C6_Shares ==
    \A sh \in DOMAIN objs :
        ~Primary(sh) =>
            /\ SameShapeAs(sh, RootOf(sh))
            /\ TupDims(sh) = TupDims(RootOf(sh))
            /\ TupRank(sh) = TupRank(RootOf(sh))

C6_ShadowSetDimsFails ==
    (res'.op = "set_dims" /\ ~Primary(res'.target)) =>
        /\ res'.exc = "RuntimeError"
        /\ res'.val = "set_dims_on_shadow"
        /\ shapes' = shapes

\* C6: a Shadow of a Primary p, whether its owner is p or another Shadow of
\* p, has the Shape of p: after construction and after any calls it is
\* same_shape_as p and its dims() and rank() are those of p; set_dims on the
\* Shadow always fails and leaves the shared dims as they were.
C6_ShadowSharesShape == []C6_Shares /\ [][C6_ShadowSetDimsFails]_vars

C6_Witness ==
    /\ res.op = "set_dims"
    /\ ~Primary(res.target)
    /\ ~Primary(objs[res.target].shadow_of)
    /\ res.exc = "RuntimeError"
    /\ objs[RootOf(res.target)].shape \in set_called
    /\ TupDims(res.target).exc = "None"
    /\ Len(TupDims(res.target).val) = 2

C7_Reads ==
    /\ \A s \in DOMAIN shapes :
          IF s \in set_called
          THEN /\ ShapeGet(shapes[s]).exc = "None"
               /\ ShapeGet(shapes[s]).val = shapes[s].dims
          ELSE /\ ShapeGet(shapes[s]) = Uninitialized
               /\ \A ind \in ElemInds, dim \in ElemVals :
                     ShapeSetElemResult(shapes[s], ind, dim) = Uninitialized
    /\ res.op = "Shape.get" =>
          IF res.target \in set_called
          THEN res.exc = "None" /\ res.val = shapes[res.target].dims
          ELSE res.exc = "RuntimeError" /\ res.val = "uninitialized"
    /\ (res.op = "Shape.set_elem" /\ res.target \notin set_called) =>
          res.exc = "RuntimeError" /\ res.val = "uninitialized"

C7_FailedCallsChangeNothing ==
    /\ (res'.op \in {"Shape.get", "Shape.set_elem"} /\ res'.exc # "None") =>
          shapes' = shapes
    /\ res'.op = "Shape.get" => shapes' = shapes

\* C7: on a Shape whose set() was never called, get() and set_elem() fail
\* with the uninitialized error and leave it unchanged; once set() has been
\* called, get() never fails and returns the dims as last stored by set()
\* and modified by successful set_elem() calls.
C7_UninitializedUntilSet == []C7_Reads /\ [][C7_FailedCallsChangeNothing]_vars

C7_Witness ==
    /\ res.op = "Shape.get"
    /\ res.target \in set_called
    /\ res.exc = "None"
    /\ \E i \in DOMAIN res.val : res.val[i] = 7
    /\ \E i \in DOMAIN res.val : res.val[i] = -1

(***************************************************************************)
(* Properties of gen_shapes and run                                        *)
(***************************************************************************)

\* Every rank assignment over n primary groups.
RankSpace(n) == [1..n -> 0..(RankCeiling - 1)]

\* The ranks the groups of rank_map now have are those it gives them.
RanksBound(rank_map) ==
    \A i \in DOMAIN rank_map :
        /\ RtRank(shapes, rank_map[i].name).exc = "None"
        /\ RtRank(shapes, rank_map[i].name).val = rank_map[i].rank

\* C8: gen_shapes binds every rank assignment of {0..9}^|P| exactly once,
\* and yields an assignment if and only if every constraint is true once
\* its dims are bound: an assignment is yielded only with all constraints
\* holding, and passed over only with some constraint failing.
C8_ExhaustiveSearch ==
    /\ gen_pc # "failed"
    /\ Cardinality(visited) = gen_idx
    /\ visited \subseteq RankSpace(Len(gen_names))
    /\ gen_pc = "done" =>
          /\ gen_idx = Pow(RankCeiling, Len(gen_names))
          /\ visited = RankSpace(Len(gen_names))
    /\ gen_pc \in {"yielded", "running"} =>
          /\ gen_rank_map =
                ZipRanks(gen_names, RankCombo(gen_idx - 1, Len(gen_names)))
          /\ RanksBound(gen_rank_map)
          /\ gen_pc = "yielded" <=> ConstraintsHold(shapes)

C8_Witness ==
    /\ gen_pc = "done"
    /\ Len(gen_names) = 2
    /\ Len(constraints.items) = 2
    /\ n_yielded > 0
    /\ n_yielded < Cardinality(visited)

BlankConstraint == Node("constraint", <<"">>)

RejectsRankZero ==
    {Node("constraint", <<"RANK(a) > 0">>), Node("constraint", <<"RANK(b) > 0">>)}

\* gen_shapes has run to its end over exactly two primary groups.
SearchedTwoGroups == gen_pc = "done" /\ Len(gen_names) = 2

\* The one constraint given rejects rank 0 for one of the groups.
OneRejectsRankZero ==
    Len(constraints.items) = 1 /\ constraints.items[1] \in RejectsRankZero

\* C9 (as stated): over exactly two primary groups, gen_shapes yields 100
\* rank assignments when no constraint is given, and 99 when the one
\* constraint given rejects rank 0 for one of the groups.
C9_Original ==
    SearchedTwoGroups =>
        /\ constraints.items = <<BlankConstraint>> => n_yielded = 100
        /\ OneRejectsRankZero => n_yielded = 99

\* C9 (amended): over exactly two primary groups, gen_shapes yields 100
\* rank assignments when no constraint is given, and 90 when the one
\* constraint given rejects rank 0 for one of the groups: the ten
\* assignments that give that group rank 0 are all filtered out.
C9_YieldCounts ==
    SearchedTwoGroups =>
        /\ constraints.items = <<BlankConstraint>> => n_yielded = 100
        /\ OneRejectsRankZero => n_yielded = 90

C9_Witness ==
    /\ SearchedTwoGroups
    /\ constraints.items = <<Node("constraint", <<"RANK(b) > 0">>)>>
    /\ n_yielded = 90

\* Every registered group has its dims set.
AllDimsSet == \A name \in TupNames : RtDims(shapes, name).exc = "None"

\* C10: with a specification loaded and all constraints holding, run()
\* evaluates each statement once in declared order, then every declared
\* output reference, and returns the set of (name, value) pairs without
\* failing.
C10_RunReturnsOutputs ==
    (res.op = "run" /\ ~statements.isNone /\ AllDimsSet
        /\ ConstraintsHold(shapes)) =>
        /\ res.exc = "None"
        /\ eval_log = statements.items \o NodesOf("output", out_args)
        /\ res.val = OutputPairs(out_args, arrays)

\* The specification text f has no constraints section.
NoConstraintsSection(f) == Len(Sections(f)) = 3

C11_LoadLeavesNoConstraint ==
    \A f \in Files :
        (NoConstraintsSection(f) /\ ParseEtFile(f)) =>
            /\ constraints'.items = <<>>
            /\ \A i \in DOMAIN parse_log' : parse_log'[i].mode # "constraint"

\* C11: loading a specification text that has no constraints section
\* leaves the constraints list empty, and no constraint node is parsed.
C11_AbsentMeansEmpty == [][C11_LoadLeavesNoConstraint]_vars

\* C12: equal_tens compares with tolerance zero when either operand is not
\* floating (equal iff shapes match and all elements are identical), with
\* the caller's eps when both are floating, and is unequal on any shape
\* mismatch.
C12_EpsZeroForEither ==
    res.op = "equal_tens" =>
        LET a == res.target.a
            b == res.target.b
            eps == res.target.eps
        IN  /\ res.exc = "None"
            /\ a.shape # b.shape => res.val = FALSE
            /\ (~IsFloating(a) \/ ~IsFloating(b)) =>
                  (res.val <=> (a.shape = b.shape /\ a.elems = b.elems))
            /\ (IsFloating(a) /\ IsFloating(b)) =>
                  (res.val <=> (a.shape = b.shape /\ AllWithin(a, b, eps)))

\* C13: every iteration request on a group yields the complete row-major
\* sequence of multi-indices of its dims, also when the request is made
\* while an earlier iteration of the same group is in progress, and after
\* exhaustion: a loop that has ended has received the whole sequence.
C13_EachLoopFullSequence ==
    \A l \in DOMAIN loops :
        loops[l].done => loops[l].got = AllIndices(loops[l].dims)

\* Some constraint is false on the current dims.
SomeConstraintFalse(shp) ==
    AllConstraints(shp).exc = "None" /\ ~AllConstraints(shp).val

C14_GuardedStep ==
    (res'.op = "run" /\ SomeConstraintFalse(shapes)) =>
        /\ res'.exc = "None"
        /\ res'.val = "None"
        /\ eval_log' = <<>>
        /\ arrays' = arrays

\* C14: run() checks the constraints first: when one is false it returns
\* None, evaluates no statement and no output reference, and leaves arrays
\* as they were.
C14_FalseConstraintNoOutput == [][C14_GuardedStep]_vars

C14_Witness ==
    /\ res.op = "run"
    /\ SomeConstraintFalse(shapes)
    /\ res.val = "None"
    /\ arrays # <<>>
    /\ AllDimsSet

\* C15: validate() evaluates the statements in declared order, then the
\* call expression, and returns one verdict per declared output reference,
\* verdict i comparing output reference i with position i of the engine's
\* tuple, whatever the length of that tuple.
C15_OneVerdictPerOutput ==
    (res.op = "validate" /\ res.exc = "None") =>
        /\ eval_log = Append(statements.items, Node("tfcall", tf_call))
        /\ Len(res.val) = Len(out_args)
        /\ \A i \in DOMAIN out_args :
              res.val[i] = Verdict(out_args[i], res.target[i], arrays)

\* The entries of rank_map that set_ranks refuses: names that are not
\* registered, and names of Shadows.
Unregistered(name) == name \notin TupNames
NamesShadow(name) == name \in TupNames /\ ~Primary(TupOf(name))
Refused(rank_map) ==
    {i \in DOMAIN rank_map :
        Unregistered(rank_map[i].name) \/ NamesShadow(rank_map[i].name)}
FirstRefused(rank_map) ==
    CHOOSE i \in Refused(rank_map) : \A j \in Refused(rank_map) : i <= j

\* The rank map of the last set_ranks call.
LastRankMap == res.target.rank_map

\* set_ranks succeeds exactly when every name is that of a registered
\* Primary, and otherwise fails.
C16_FailsIffRefused ==
    res.op = "set_ranks" => (res.exc = "None" <=> Refused(LastRankMap) = {})

\* The failure is that of the first refused entry, told by its message.
C16_FailureNamesCause ==
    (res.op = "set_ranks" /\ Refused(LastRankMap) # {}) =>
        /\ res.exc = "RuntimeError"
        /\ res.target.stop = FirstRefused(LastRankMap)
        /\ res.val = IF Unregistered(LastRankMap[FirstRefused(LastRankMap)].name)
                     THEN "unknown_eintup" ELSE "non_primary"

\* The two failures are errors of different kinds.
C16_KindsDiffer ==
    \A u \in Names, sh \in Names :
        (Unregistered(u) /\ NamesShadow(sh)) =>
            SetRankResult(u).exc # SetRankResult(sh).exc

\* The two failures are errors of one kind with different messages.
C16_MessagesDiffer ==
    \A u \in Names, sh \in Names :
        (Unregistered(u) /\ NamesShadow(sh)) =>
            /\ SetRankResult(u).exc = SetRankResult(sh).exc
            /\ SetRankResult(u).val # SetRankResult(sh).val

\* C16 (as stated): set_ranks fails on a name that is not registered and
\* fails with an error of a different kind on the name of a Shadow; it
\* succeeds only when every name is that of a registered Primary.
C16_Original == C16_KindsDiffer /\ C16_FailsIffRefused

\* C16 (amended): set_ranks fails on a name that is not registered and on
\* the name of a Shadow, both times with a RuntimeError, the two told apart
\* by message only; it succeeds only when every name is that of a
\* registered Primary.
C16_SetRanksRefusals ==
    C16_MessagesDiffer /\ C16_FailsIffRefused /\ C16_FailureNamesCause

C16_Witness ==
    /\ res.op = "set_ranks"
    /\ res.exc = "RuntimeError"
    /\ res.val = "non_primary"
    /\ \E u \in Names : Unregistered(u)
    /\ \E p \in Names : ~Unregistered(p) /\ ~NamesShadow(p)
                           /\ RtDims(shapes, p).exc = "None"

\* A failed set_ranks call has just ended.
SetRanksFailed == res'.op = "set_ranks" /\ res'.exc # "None"

\* The entries of the rank map of that call before the refused one.
AppliedEntries == 1..(res'.target.stop - 1)
SkippedEntries == (res'.target.stop + 1)..Len(res'.target.rank_map)

\* dims are of the given rank, every one in [min_dim, max_dim).
SampledDims(d, rank) ==
    /\ d.exc = "None"
    /\ Len(d.val) = rank
    /\ \A k \in DOMAIN d.val : d.val[k] >= min_dim /\ d.val[k] < max_dim

\* Every Primary listed before the refused entry has sampled dims of the
\* requested rank, and so has every group that shares its Shape.
C19_EarlierApplied ==
    SetRanksFailed =>
        \A i \in AppliedEntries :
            LET e == res'.target.rank_map[i]
            IN  /\ Primary(TupOf(e.name))
                /\ objs[TupOf(e.name)].shape \in set_called'
                /\ \A n \in TupNames :
                      SameShapeAs(TupOf(n), TupOf(e.name)) =>
                          SampledDims(RtDims(shapes', n), e.rank)

\* The group named by a later entry has a Shape of an earlier entry.
SharesWithApplied(name) ==
    \E i \in AppliedEntries :
        SameShapeAs(TupOf(name), TupOf(res'.target.rank_map[i].name))

\* The group of that name has the dims, or the lack of dims, it had.
DimsKept(name) ==
    shapes'[objs[TupOf(name)].shape] = shapes[objs[TupOf(name)].shape]

\* Every group listed after the refused entry keeps its dims.
C19_LaterKept ==
    SetRanksFailed =>
        \A j \in SkippedEntries :
            LET n == res'.target.rank_map[j].name
            IN  n \in TupNames => DimsKept(n)

\* Every group listed after the refused entry keeps its dims unless it has
\* the Shape of a Primary listed before the refused entry; no Shape other
\* than those of the earlier entries changes.
C19_LaterKeptUnlessShared ==
    SetRanksFailed =>
        /\ \A j \in SkippedEntries :
              LET n == res'.target.rank_map[j].name
              IN  (n \in TupNames /\ ~SharesWithApplied(n)) =>
                      DimsKept(n)
        /\ \A sid \in DOMAIN shapes :
              (\A i \in AppliedEntries :
                  objs[TupOf(res'.target.rank_map[i].name)].shape # sid)
                  => shapes'[sid] = shapes[sid]

\* C19 (as stated): set_ranks is not atomic: when it fails, every Primary
\* listed before the refused entry has freshly sampled dims of the requested
\* rank, seen through its Shadows, and every group listed after it keeps the
\* dims it had.
C19_Original == [][C19_EarlierApplied /\ C19_LaterKept]_vars

\* C19 (amended): set_ranks is not atomic: when it fails, every Primary
\* listed before the refused entry has freshly sampled dims of the requested
\* rank, seen through its Shadows, and every group listed after it keeps the
\* dims it had unless it is a Shadow of a Primary listed before the refused
\* entry, whose new dims it shows.
C19_PartialApplication == [][C19_EarlierApplied /\ C19_LaterKeptUnlessShared]_vars

C19_Witness ==
    /\ res.op = "set_ranks"
    /\ res.exc # "None"
    /\ res.target.stop = 2
    /\ Len(LastRankMap) = 3
    /\ LastRankMap[3].name \in TupNames
    /\ SameShapeAs(TupOf(LastRankMap[3].name), TupOf(LastRankMap[1].name))
    /\ RtDims(shapes, LastRankMap[3].name).exc = "None"
    /\ RtDims(shapes, LastRankMap[3].name).val = <<>>

\* A call that asks to change dims through a Shadow has just ended.
MutationThroughShadow ==
    \/ res'.op \in {"set_dims", "set_dim"} /\ ~Primary(res'.target)
    \/ /\ res'.op = "set_one_dim"
       /\ res'.target \in TupNames
       /\ ~Primary(TupOf(res'.target))

C17_ShadowMutationFails ==
    MutationThroughShadow => (res'.exc # "None" /\ shapes' = shapes)

\* C17: every change of dims asked through a Shadow, whole (set_dims) or of
\* one axis (EinTup.set_dim, Runtime.set_one_dim), fails and leaves the
\* Shape shared with the owner as it was.
C17_ShadowNeverMutates == [][C17_ShadowMutationFails]_vars

\* The rank gen_rank_map gives the Primary whose Shape the group has.
YieldedRankOf(name) ==
    LET i == CHOOSE k \in DOMAIN gen_rank_map :
                 SameShapeAs(TupOf(gen_rank_map[k].name), TupOf(name))
    IN  gen_rank_map[i].rank

\* C18: whenever gen_shapes yields a rank map, each Primary has the rank
\* yielded for its name, every group, Primary or Shadow, has dims of that
\* rank bound by this assignment with every axis length an integer in
\* [min_dim, max_dim), and all constraints hold on those dims.
C18_YieldedStateMatches ==
    gen_pc = "yielded" =>
        /\ RanksBound(gen_rank_map)
        /\ \A n \in TupNames :
              /\ objs[TupOf(n)].shape \in set_called
              /\ SampledDims(RtDims(shapes, n), YieldedRankOf(n))
        /\ ConstraintsHold(shapes)

C18_Witness ==
    /\ gen_pc = "yielded"
    /\ gen_idx > 2
    /\ \E n \in TupNames :
          /\ ~Primary(TupOf(n))
          /\ RtRank(shapes, n).exc = "None"
          /\ RtRank(shapes, n).val = 2

\* The registry holds each name once, under it the EinTup of that name.
C20_OneGroupPerName ==
    /\ \A i \in DOMAIN tups, j \in DOMAIN tups :
          tups[i].name = tups[j].name => i = j
    /\ \A i \in DOMAIN tups : objs[tups[i].tup].name = tups[i].name

\* maybe_add_tup with a registered name returns the registered EinTup and
\* changes nothing, whatever owner is given.
C20_RegisteredNameReturned ==
    \A n \in TupNames, o \in {NoneRef} \cup DOMAIN objs :
        /\ MaybeAddTupResult(Heap, n, o).exc = "None"
        /\ MaybeAddTupResult(Heap, n, o).val = TupOf(n)
        /\ MaybeAddTup(Heap, n, o) = Heap

\* maybe_add_tup with a new name and an owner whose name is not registered
\* fails and adds nothing.
C20_UnknownOwnerRefused ==
    \A n \in Names \ TupNames, o \in DOMAIN objs :
        objs[o].name \notin TupNames =>
            /\ MaybeAddTupResult(Heap, n, o).exc = "RuntimeError"
            /\ MaybeAddTup(Heap, n, o) = Heap

\* Every registered Shadow has the Shape of a registered Primary.
C20_ShadowOfRegisteredPrimary ==
    \A n \in TupNames :
        ~Primary(TupOf(n)) =>
            \E q \in TupNames :
                Primary(TupOf(q)) /\ SameShapeAs(TupOf(n), TupOf(q))

\* A registered group stays registered, of the kind and with the owner and
\* the Shape it was created with.
C20_EntriesKept ==
    \A i \in DOMAIN tups :
        /\ i \in DOMAIN tups'
        /\ tups'[i] = tups[i]
        /\ objs'[tups[i].tup] = objs[tups[i].tup]

\* C20: after any maybe_add_tup calls the registry maps each name to one
\* group whose kind and owner never change; a call with a registered name
\* returns the existing group unchanged, a call with a new name and an owner
\* whose name is not registered fails and adds nothing, and every registered
\* Shadow shares its Shape with a registered Primary.
C20_RegistryInvariant ==
    /\ [](C20_OneGroupPerName /\ C20_RegisteredNameReturned
            /\ C20_UnknownOwnerRefused /\ C20_ShadowOfRegisteredPrimary)
    /\ [][C20_EntriesKept]_vars

(***************************************************************************)
(* Properties of the wrapper                                               *)
(***************************************************************************)

\* The positions of the events named `name` in this invocation's log.
EvIdx(name) == {i \in 1..Len(events) : events[i].ev = name}

\* An invocation of the wrapper has run to its end.
WrapperDone == w_pc = "idle" /\ events # <<>>

FuncRaised == func_result.kind = "raise"
FuncReturned == func_result.kind = "return"

\* The final report: a report made after the original callable was invoked.
FinalReportIdx ==
    {i \in EvIdx("report") : \E f \in EvIdx("func") : f < i}

\* The diagnostic of a raised exception precedes the final report.
DiagnosticBeforeReport(ex) ==
    \E d \in EvIdx("print_exception") :
        /\ events[d].arg = ex
        /\ \E f \in EvIdx("func") : f < d
        /\ \A i \in FinalReportIdx : d < i

\* The wrapper ends by raising exactly `ex`, right after the final report,
\* and nowhere returns.
RaisesAfterReport(ex) ==
    /\ events[Len(events)] = Ev("raise", ex)
    /\ Len(events) - 1 \in FinalReportIdx
    /\ EvIdx("return") = {}
    /\ EvIdx("raise") = {Len(events)}

\* C1 (as stated): whenever the original callable raises, the wrapper raises
\* that same exception, after the diagnostic and after the final report, and
\* does not return.
C1_Original ==
    (WrapperDone /\ FuncRaised) =>
        /\ RaisesAfterReport(func_result.val)
        /\ DiagnosticBeforeReport(func_result.val)

\* C1 (amended): whenever the original callable raises, the wrapper raises
\* that same exception after the final report and does not return; the
\* diagnostic precedes the report when the exception is an instance of
\* Exception, and is not printed for any other BaseException.
C1_ReraisesSame ==
    (WrapperDone /\ FuncRaised) =>
        /\ RaisesAfterReport(func_result.val)
        /\ IsException(func_result.val)
             <=> DiagnosticBeforeReport(func_result.val)
        /\ ~IsException(func_result.val) => EvIdx("print_exception") = {}

C1_Witness ==
    /\ WrapperDone
    /\ FuncRaised
    /\ IsException(func_result.val)
    /\ events[Len(events)] = Ev("raise", func_result.val)

\* C2: validation is observational: whether evaluate() passed or failed, the
\* original callable is invoked exactly once, with the caller's arguments,
\* and on the success path the caller gets its return value unchanged.
C2_Observational ==
    /\ w_pc \in {"L40", "L51"} \/ WrapperDone =>
          /\ Cardinality(EvIdx("func")) = 1
          /\ \A f \in EvIdx("func") :
                /\ events[f].arg = w_args
                /\ \E e \in EvIdx("evaluate") : e < f
    /\ (WrapperDone /\ FuncReturned) =>
          /\ events[Len(events)] = Ev("return", func_result.val)
          /\ EvIdx("raise") = {}

C2_Witness ==
    /\ WrapperDone
    /\ ~opcheck_valid
    /\ EvIdx("print_failed") # {}
    /\ FuncReturned
    /\ events[Len(events)] = Ev("return", func_result.val)

\* C3: on every path the final report is made before the wrapper returns to
\* or raises into its caller.
C3_AlwaysReports ==
    /\ WrapperDone =>
          /\ events[Len(events)].ev \in {"return", "raise"}
          /\ FinalReportIdx # {}
    /\ \A i \in EvIdx("return") \cup EvIdx("raise") :
          \E r \in FinalReportIdx : r < i

C3_Witness ==
    /\ WrapperDone
    /\ ~opcheck_valid
    /\ FuncRaised
    /\ FinalReportIdx # {}

\* C4: set_outputs and validate run if and only if the original callable
\* returned normally; they run after its return and before the final
\* report, set_outputs first, and set_outputs receives the return value.
C4_OutputValidation ==
    /\ (w_pc = "L51" \/ WrapperDone) =>
          /\ FuncReturned <=> EvIdx("set_outputs") # {}
          /\ FuncReturned <=> EvIdx("validate") # {}
    /\ \A s \in EvIdx("set_outputs") :
          /\ FuncReturned
          /\ events[s].arg = func_result.val
          /\ \E f \in EvIdx("func") : f < s
          /\ \E v \in EvIdx("validate") : s < v
          /\ \A r \in FinalReportIdx : s < r
    /\ \A v \in EvIdx("validate") :
          /\ FuncReturned
          /\ \A r \in FinalReportIdx : v < r
    /\ Cardinality(EvIdx("set_outputs")) <= 1
    /\ Cardinality(EvIdx("validate")) <= 1

C4_Witness ==
    /\ WrapperDone
    /\ FuncReturned
    /\ EvIdx("set_outputs") # {}
    /\ EvIdx("validate") # {}

\* C5: the toggle decides whether the wrapper performs its checks: with
\* config.validate False an invocation performs no input validation and no
\* output validation, with config.validate True it performs both.
C5_ToggleGates ==
    /\ (w_pc # "idle" /\ ~config_validate) =>
          /\ EvIdx("evaluate") = {}
          /\ EvIdx("set_outputs") = {}
          /\ EvIdx("validate") = {}
    /\ (w_pc = "L51" /\ config_validate /\ FuncReturned) =>
          /\ EvIdx("evaluate") # {}
          /\ EvIdx("validate") # {}

====
